---------------------------- MODULE Spec2Model ----------------------------
(***************************************************************************)
(* Model of src/src/serial.rs of pico-rpc-rtic: the USB serial command     *)
(* parser (match_usb_serial_buf, slice_contains, message_parse_build,      *)
(* bytes_to_number) and the serial writer (write_serial).                  *)
(*                                                                         *)
(* Text is a sequence of one-character strings.  The zero byte is the      *)
(* character NUL.  A u32 is kept as two 16-bit limbs, [hi, lo], because    *)
(* the values the decoder reaches (up to 2^32 - 1) do not fit the          *)
(* integers of the model checker.                                          *)
(***************************************************************************)
EXTENDS Integers, Sequences, FiniteSets, TLC

VARIABLES
    s,               \* bytes_to_number: the token given
    num,             \* bytes_to_number: what it returned
    toks,            \* the tokens the input line was built from
    tail,            \* the whitespace that ends the line
    entry,           \* which function was called on the line
    input,           \* the text (message_parse_build) or 64-byte buffer (match_usb_serial_buf)
    result,          \* what the function returned
    serial_calls,    \* the write_serial calls match_usb_serial_buf made, in order
    w_buf,           \* write_serial: buf
    w_block,         \* write_serial: block
    w_ptr,           \* write_serial: write_ptr, the bytes still to be written
    w_pc,            \* write_serial: position in the function
    w_log            \* write_serial: the calls made on the transport, with its answers

vars == <<s, num, toks, tail, entry, input, result, serial_calls,
          w_buf, w_block, w_ptr, w_pc, w_log>>

numVars   == <<s, num>>
parseVars == <<toks, tail, entry, input, result, serial_calls>>
writeVars == <<w_buf, w_block, w_ptr, w_pc, w_log>>

-----------------------------------------------------------------------------
(* Characters *)

NUL == "NUL"

DecDigits == {"0", "1", "2", "3", "4", "5", "6", "7", "8", "9"}
HexLower  == {"a", "b", "c", "d", "e", "f"}
HexUpper  == {"A", "B", "C", "D", "E", "F"}

\* c as u32 - '0' as u32
DecVal(c) ==
    ("0" :> 0 @@ "1" :> 1 @@ "2" :> 2 @@ "3" :> 3 @@ "4" :> 4 @@
     "5" :> 5 @@ "6" :> 6 @@ "7" :> 7 @@ "8" :> 8 @@ "9" :> 9)[c]

\* c as u32 - 'a' as u32
LowerOff(c) == ("a" :> 0 @@ "b" :> 1 @@ "c" :> 2 @@ "d" :> 3 @@ "e" :> 4 @@ "f" :> 5)[c]

\* c as u32 - 'A' as u32
UpperOff(c) == ("A" :> 0 @@ "B" :> 1 @@ "C" :> 2 @@ "D" :> 3 @@ "E" :> 4 @@ "F" :> 5)[c]

\* char::is_whitespace, on the characters of the model
IsWhitespace(c) == c \in {" ", "\t", "\n", "\r"}

-----------------------------------------------------------------------------
(* u32 arithmetic on two 16-bit limbs *)

Limb == 65536

U32(n) == [hi |-> n \div Limb, lo |-> n % Limb]

U32Zero == [hi |-> 0, lo |-> 0]

\* a >= b on u32
U32Ge(a, b) == a.hi > b.hi \/ (a.hi = b.hi /\ a.lo >= b.lo)

\* r * m + d on u32: the wrapped value, and whether the exact value left the 32 bits
MulAdd(r, m, d) ==
    LET lo == r.lo * m + d
        hi == r.hi * m + (lo \div Limb)
    IN  [val |-> [hi |-> hi % Limb, lo |-> lo % Limb], ovf |-> hi >= Limb]

-----------------------------------------------------------------------------
(* bytes_to_number *)

ErrInvalidDecimal == "Invalid decimal character\n\r"
ErrTooLarge       == "Integer number too large!\n\r"
ErrNotHexOrDec    == "Not a hex or decimal string\n\r"
ErrInvalidHex     == "Invalid hex character\n\r"

NumOk(v, o)  == [kind |-> "Ok",    err |-> "",  value |-> v,       ovf |-> o]
NumErr(e, o) == [kind |-> "Err",   err |-> e,   value |-> U32Zero, ovf |-> o]
NumPanic     == [kind |-> "Panic", err |-> "arithmetic overflow", value |-> U32Zero, ovf |-> TRUE]

\* the threshold of the decimal pre-check
DecLimit == 429496720

\* if result >= 429_496_720
DecTooLargeRounded(res) == U32Ge(res, U32(DecLimit + 10))
DecTooLarge(res) == U32Ge(res, U32(DecLimit))

\* for c in chars { ... } of the decimal branch; ovf: an earlier step wrapped
RECURSIVE DecLoop(_, _, _, _)
DecLoop(chars, res, ovf, checks) ==
    IF chars = <<>> THEN NumOk(res, ovf)
    ELSE LET c == Head(chars) IN
         IF c \notin DecDigits THEN NumErr(ErrInvalidDecimal, ovf)
         ELSE IF DecTooLarge(res) THEN NumErr(ErrTooLarge, ovf)
         ELSE LET m == MulAdd(res, 10, DecVal(c)) IN
              IF m.ovf /\ checks THEN NumPanic
              ELSE DecLoop(Tail(chars), m.val, ovf \/ m.ovf, checks)

\* 'a'..='f' => c as u32 - 'a' as u32 + 10
HexLowerVal(c) == LowerOff(c) + 10

\* the digit of the hexadecimal branch; -1: no hex digit
HexDigit(c) ==
    IF c \in DecDigits THEN DecVal(c)
    ELSE IF c \in HexLower THEN HexLowerVal(c)
    ELSE IF c \in HexUpper THEN UpperOff(c) + 10
    ELSE -1

\* if chars.clone().count() > 8
HexTooLongOffByOne(chars) == Len(chars) >= 8
HexTooLong(chars) == Len(chars) > 8

\* for c in chars { ... } of the hexadecimal branch
RECURSIVE HexLoop(_, _, _, _)
HexLoop(chars, res, ovf, checks) ==
    IF chars = <<>> THEN NumOk(res, ovf)
    ELSE LET d == HexDigit(Head(chars)) IN
         IF d < 0 THEN NumErr(ErrInvalidHex, ovf)
         ELSE LET m == MulAdd(res, 16, d) IN
              IF m.ovf /\ checks THEN NumPanic
              ELSE HexLoop(Tail(chars), m.val, ovf \/ m.ovf, checks)

HexBranch(chars, checks) ==
    IF HexTooLong(chars) THEN NumErr(ErrTooLarge, FALSE)
    ELSE HexLoop(chars, U32Zero, FALSE, checks)

DecBranch(c, chars, checks) ==
    IF c \in DecDigits
    THEN DecLoop(chars, U32(DecVal(c)), FALSE, checks)
    ELSE NumErr(ErrNotHexOrDec, FALSE)

\* chars.next() is evaluated, and consumes the second character, only when the first
\* character is '0' (the || short-circuits)
bytes_to_number(str, checks) ==
    IF str = <<>> THEN HexBranch(<<>>, checks)
    ELSE LET c == Head(str) IN
         IF c # "0" THEN DecBranch(c, Tail(str), checks)
         ELSE IF Len(str) = 1 THEN DecBranch(c, <<>>, checks)
         ELSE IF str[2] # "x" THEN DecBranch(c, SubSeq(str, 3, Len(str)), checks)
         ELSE HexBranch(SubSeq(str, 3, Len(str)), checks)

NotCalled == [kind |-> "None", err |-> "", value |-> U32Zero, ovf |-> FALSE]

-----------------------------------------------------------------------------
(* Writing a number as text: what a caller does before bytes_to_number reads it *)

DigitChar(d) == <<"0", "1", "2", "3", "4", "5", "6", "7", "8", "9",
                  "a", "b", "c", "d", "e", "f">>[d + 1]

UpperChar(d) == <<"0", "1", "2", "3", "4", "5", "6", "7", "8", "9",
                  "A", "B", "C", "D", "E", "F">>[d + 1]

\* n \div 10 and n % 10 on the limbs
Div10(n) == [hi |-> n.hi \div 10, lo |-> ((n.hi % 10) * Limb + n.lo) \div 10]
Mod10(n) == ((n.hi % 10) * Limb + n.lo) % 10

\* the canonical decimal string of n: no leading zeros, "0" for zero
RECURSIVE DecString(_)
DecString(n) ==
    IF n.hi = 0 /\ n.lo < 10 THEN <<DigitChar(n.lo)>>
    ELSE DecString(Div10(n)) \o <<DigitChar(Mod10(n))>>

\* the 8 hexadecimal digits of n, most significant first
Hex8(n) == <<n.hi \div 4096, (n.hi \div 256) % 16, (n.hi \div 16) % 16, n.hi % 16,
             n.lo \div 4096, (n.lo \div 256) % 16, (n.lo \div 16) % 16, n.lo % 16>>

\* n fits w hexadecimal digits
FitsHex(n, w) == \A i \in 1..(8 - w) : Hex8(n)[i] = 0

\* n written in exactly w lowercase (uppercase) hexadecimal digits
HexString(n, w)   == [i \in 1..w |-> DigitChar(Hex8(n)[8 - w + i])]
HexStringUp(n, w) == [i \in 1..w |-> UpperChar(Hex8(n)[8 - w + i])]

-----------------------------------------------------------------------------
(* The tokens bytes_to_number is applied to *)

MaxTokLen == 3
MaxSmall  == 255

NumAlphabet == {"0", "1", "9", "x", "a", "F", "g"}

RECURSIVE SeqsUpTo(_, _)
SeqsUpTo(S, n) ==
    IF n = 0 THEN {<<>>}
    ELSE LET shorter == SeqsUpTo(S, n - 1)
         IN  shorter \cup {Append(q, c) : q \in {x \in shorter : Len(x) = n - 1}, c \in S}

ShortTokens == SeqsUpTo(NumAlphabet, MaxTokLen)

\* values at the edges of the decimal pre-check and of the 32 bits
EdgeSamples ==
    {U32(DecLimit + d) : d \in -11..11} \cup
    {U32(42949671), U32(42949672), U32(42949673), U32(99999999), U32(100000000),
     U32(999999999), U32(1000000000), U32(2147483647), U32(65535), U32(65536),
     [hi |-> 32768, lo |-> 0], [hi |-> 57005, lo |-> 48879],
     [hi |-> 65535, lo |-> 65439], [hi |-> 65535, lo |-> 65535]}

Samples == {U32(n) : n \in 0..MaxSmall} \cup EdgeSamples

DecTokens ==
    {DecString(n) : n \in Samples} \cup
    {DecString(n) \o <<d>> : n \in EdgeSamples, d \in {"0", "5", "6", "9", "z"}} \cup
    {DecString(n) \o <<"9", d>> : n \in EdgeSamples, d \in {"9", "z"}} \cup
    {<<"0">> \o DecString(n) : n \in Samples}

HexTokens ==
    UNION {{<<"0", "x">> \o HexString(n, w) : n \in {m \in Samples : FitsHex(m, w)}} :
           w \in 1..8}
    \cup {<<"0", "x">> \o HexStringUp(n, 8) : n \in EdgeSamples}
    \cup {<<"0", "x", "0">> \o HexString(n, 8) : n \in EdgeSamples}
    \cup {<<"0", "X">> \o HexString(n, 8) : n \in EdgeSamples}

NumTokens == ShortTokens \cup DecTokens \cup HexTokens

-----------------------------------------------------------------------------
(* The string literals of the parser *)

K_smi == <<"s", "m", "i">>
K_SMI == <<"S", "M", "I">>
K_cfg == <<"c", "f", "g">>
K_CFG == <<"C", "F", "G">>
K_gpio == <<"g", "p", "i", "o">>
K_GPIO == <<"G", "P", "I", "O">>
K_jtag == <<"j", "t", "a", "g">>
K_JTAG == <<"J", "T", "A", "G">>
K_spi == <<"s", "p", "i">>
K_SPI == <<"S", "P", "I">>
K_r == <<"r">>
K_R == <<"R">>
K_w == <<"w">>
K_W == <<"W">>
K_smiset == <<"s", "m", "i", "s", "e", "t">>
K_SMISET == <<"S", "M", "I", "S", "E", "T">>
K_menu == <<"m", "e", "n", "u">>

ErrTooManyArguments == "Too many arguments\n\r"
ErrInvalidInterface == "Invalid Interface\n\r"
ErrInvalidOperation == "Invalid Operation\n\r"

-----------------------------------------------------------------------------
(* str::split_whitespace and slice_contains *)

\* the maximal runs of non-whitespace characters of text, in order
split_whitespace(text) ==
    LET n        == Len(text)
        starts   == {i \in 1..n : /\ ~IsWhitespace(text[i])
                                  /\ (i = 1 \/ IsWhitespace(text[i - 1]))}
        ends     == {i \in 1..n : /\ ~IsWhitespace(text[i])
                                  /\ (i = n \/ IsWhitespace(text[i + 1]))}
        Nth(S, k) == CHOOSE i \in S : Cardinality({j \in S : j < i}) = k - 1
    IN  [k \in 1..Cardinality(starts) |-> SubSeq(text, Nth(starts, k), Nth(ends, k))]

slice_contains(haystack, needle) ==
    IF Len(haystack) < Len(needle) THEN FALSE
    ELSE \E i \in 0..(Len(haystack) - Len(needle)) :
             SubSeq(haystack, i + 1, i + Len(needle)) = needle

-----------------------------------------------------------------------------
(* message_parse_build *)

PayloadLen == 4

ZeroPayload == [i \in 1..PayloadLen |-> U32Zero]

Request(iface, op, size, payload) ==
    [kind |-> "Ok", err |-> "", host_config |-> "Serial", interface |-> iface,
     operation |-> op, size |-> size, payload |-> payload]

Failure(kind, err) ==
    [kind |-> kind, err |-> err, host_config |-> "", interface |-> "", operation |-> "",
     size |-> 0, payload |-> ZeroPayload]

Err(e)   == Failure("Err", e)
Panic(e) == Failure("Panic", e)

\* if command_count > 6
TooManyArgsOffByOne(count) == count >= 6
TooManyArgs(count) == count > 6

\* match command.next() { Some("smi" | "SMI") => ... }; "" is the _ arm
MatchInterfaceLowerOnly(words) ==
    IF words = <<>> THEN ""
    ELSE LET w == Head(words) IN
         IF w = K_smi THEN "SMI"
         ELSE IF w = K_cfg THEN "Config"
         ELSE IF w = K_gpio THEN "GPIO"
         ELSE IF w = K_jtag THEN "JTAG"
         ELSE IF w = K_spi THEN "SPI"
         ELSE ""
MatchInterface(words) ==
    IF words = <<>> THEN ""
    ELSE LET w == Head(words) IN
         IF w \in {K_smi, K_SMI} THEN "SMI"
         ELSE IF w \in {K_cfg, K_CFG} THEN "Config"
         ELSE IF w \in {K_gpio, K_GPIO} THEN "GPIO"
         ELSE IF w \in {K_jtag, K_JTAG} THEN "JTAG"
         ELSE IF w \in {K_spi, K_SPI} THEN "SPI"
         ELSE ""

\* match command.next() { Some("r" | "R") => ... }; "" is the _ arm
MatchOperation(words) ==
    IF words = <<>> THEN ""
    ELSE LET w == Head(words) IN
         IF w \in {K_r, K_R} THEN "Read"
         ELSE IF w \in {K_w, K_W} THEN "Write"
         ELSE IF w \in {K_smiset, K_SMISET} THEN "SmiSet"
         ELSE ""

\* (command_count - 3) as u8, where the subtraction wrapped (usize to u8 keeps the low byte)
WrappedLimit(count) == (count - 3) % 256

\* while size < limit { command.nth(0).unwrap(); bytes_to_number; payload[size] = value; size += 1 }
RECURSIVE PayloadLoop(_, _, _, _, _, _, _)
PayloadLoop(iface, op, rest, size, payload, limit, checks) ==
    IF ~(size < limit) THEN Request(iface, op, size, payload)
    ELSE IF rest = <<>> THEN Panic("unwrap on None")
    ELSE LET r == bytes_to_number(Head(rest), checks) IN
         IF r.kind = "Panic" THEN Panic(r.err)
         ELSE IF r.kind = "Err" THEN Err(r.err)
         ELSE IF size >= PayloadLen THEN Panic("index out of bounds")
         ELSE PayloadLoop(iface, op, Tail(rest), size + 1,
                          [payload EXCEPT ![size + 1] = r.value], limit, checks)

message_parse_build(text, checks) ==
    LET command       == split_whitespace(text)
        command_count == Len(command)
        iface         == MatchInterface(command)
        op            == MatchOperation(Tail(command))
    IN  IF TooManyArgs(command_count) THEN Err(ErrTooManyArguments)
        ELSE IF iface = "" THEN Err(ErrInvalidInterface)
        ELSE IF op = "" THEN Err(ErrInvalidOperation)
        ELSE IF command_count < 3 /\ checks THEN Panic("attempt to subtract with overflow")
        ELSE PayloadLoop(iface, op, SubSeq(command, 3, command_count), 0, ZeroPayload,
                         WrappedLimit(command_count), checks)

-----------------------------------------------------------------------------
(* match_usb_serial_buf *)

BufSize == 64

\* a byte that is not valid UTF-8
BAD == "0xFF"

\* the write_serial calls: <<text, block>>
CallCrLf == <<"\n\r", FALSE>>
CallMenu == <<"menu_str", TRUE>>

\* <<result, write_serial calls>>
match_usb_serial_buf(buf, checks) ==
    IF \E i \in 1..Len(buf) : buf[i] = BAD
    THEN <<Panic("unwrap on Utf8Error"), <<>>>>
    ELSE IF slice_contains(buf, K_menu)
    THEN <<Err("Ok"), <<CallCrLf, CallMenu>>>>
    ELSE <<message_parse_build(buf, checks), <<CallCrLf, CallCrLf>>>>

-----------------------------------------------------------------------------
(* write_serial *)

\* while index < write_ptr.len() && write_ptr[index] != 0 { index += 1 }
RECURSIVE ScanIndexNoZeroTest(_, _)
ScanIndexNoZeroTest(buf, index) ==
    IF index < Len(buf) THEN ScanIndexNoZeroTest(buf, index + 1) ELSE index
RECURSIVE ScanIndex(_, _)
ScanIndex(buf, index) ==
    IF index < Len(buf) /\ buf[index + 1] # NUL THEN ScanIndex(buf, index + 1) ELSE index

\* while !write_ptr.is_empty(): the loop goes on, or the function reaches the flush
AfterLoopTest(ptr) == IF ptr = <<>> THEN "flush" ELSE "loop"

\* Err(UsbError::WouldBlock) => { if !block { break; } }
AfterWouldBlock(block) == IF ~block THEN "flush" ELSE "loop"

WriteEvent(bytes, resp, n) == [op |-> "write", bytes |-> bytes, resp |-> resp, n |-> n]
FlushEvent(resp)           == [op |-> "flush", bytes |-> <<>>, resp |-> resp, n |-> 0]

-----------------------------------------------------------------------------
(* The lines the parser is applied to *)

T_Smi == <<"S", "m", "i">>
T_sMI == <<"s", "M", "I">>
T_Cfg == <<"C", "f", "g">>
T_Gpio == <<"G", "p", "i", "o">>
T_jTag == <<"j", "T", "a", "g">>
T_sPi == <<"s", "P", "i">>
T_5 == <<"5">>
T_xyz == <<"x", "y", "z">>
T_SmiSet == <<"S", "m", "i", "S", "e", "t">>
T_smiSET == <<"s", "m", "i", "S", "E", "T">>
T_x == <<"x">>
T_0x10 == <<"0", "x", "1", "0">>
T_0x20 == <<"0", "x", "2", "0">>
T_zz == <<"z", "z">>
T_9z == <<"9", "z">>
T_0xg == <<"0", "x", "g">>
T_99999999999 == <<"9", "9", "9", "9", "9", "9", "9", "9", "9", "9", "9">>

MaxTokens == 7

Tok1Vocab == {K_smi, K_SMI, T_Smi, T_sMI, K_cfg, K_CFG, T_Cfg, K_gpio, K_GPIO, T_Gpio,
              K_jtag, K_JTAG, T_jTag, K_spi, K_SPI, T_sPi, K_r, T_5, T_xyz, K_menu}

Tok2Vocab == {K_r, K_R, K_w, K_W, K_smiset, K_SMISET, T_SmiSet, T_smiSET, T_x, K_smi, T_5}

ArgVocab == {T_0x10, T_0x20, T_5, T_zz, T_9z, T_0xg, T_99999999999}

\* every spelling of the two keywords, with no or two payload words
KeywordLines == {<<a, b>> \o args : a \in Tok1Vocab, b \in Tok2Vocab,
                                    args \in {<<>>, <<T_5, T_0x10>>}}

\* a valid interface and operation with 0 to 4 payload words, valid or not
PayloadLines == {<<K_smi, K_r>> \o args : args \in SeqsUpTo(ArgVocab, PayloadLen)}

\* 0 to MaxTokens tokens, in any order
CountLines == SeqsUpTo({K_smi, K_r, T_5}, 3) \cup SeqsUpTo({K_R, T_0x10}, MaxTokens)

Lines == KeywordLines \cup PayloadLines \cup CountLines

Tails == {<<>>, <<"\r">>}

\* the tokens separated by whitespace, alternately one space and a space and a tab
RECURSIVE Join(_, _)
Join(ws, i) ==
    IF ws = <<>> THEN <<>>
    ELSE IF Len(ws) = 1 THEN Head(ws)
    ELSE Head(ws) \o (IF i % 2 = 1 THEN <<" ">> ELSE <<" ", "\t">>) \o Join(Tail(ws), i + 1)

LineText == Join(toks, 1) \o tail

\* what follows the text in the 64-byte buffer
Fills == {"zeros", "word", "menu", "bad"}

FillHead(fill) ==
    CASE fill = "zeros" -> <<>>
      [] fill = "word"  -> <<NUL, " ", "7">>
      [] fill = "menu"  -> <<NUL>> \o K_menu
      [] fill = "bad"   -> <<NUL, BAD>>

Buffer(text, fill) ==
    LET head == text \o FillHead(fill)
    IN  head \o [i \in 1..(BufSize - Len(head)) |-> NUL]

-----------------------------------------------------------------------------
(* Specification of the parser *)

\* the parts of the state a specification does not use
NumIdle == s = <<>> /\ num = NotCalled

ParseIdle ==
    /\ toks = <<>> /\ tail = <<>> /\ entry = "none" /\ input = <<>>
    /\ result = Failure("None", "") /\ serial_calls = <<>>

WriteIdle ==
    /\ w_buf = <<>> /\ w_block = FALSE /\ w_ptr = <<>> /\ w_pc = "idle" /\ w_log = <<>>

Init ==
    /\ toks \in Lines
    /\ tail \in Tails
    /\ entry = "none"
    /\ input = <<>>
    /\ result = Failure("None", "")
    /\ serial_calls = <<>>
    /\ NumIdle
    /\ WriteIdle

\* message_parse_build(input), called on the text of the line
ParseLine ==
    /\ entry = "none"
    /\ entry' = "message_parse_build"
    /\ input' = LineText
    /\ \E checks \in BOOLEAN : result' = message_parse_build(LineText, checks)
    /\ UNCHANGED <<toks, tail, serial_calls, numVars, writeVars>>

\* match_usb_serial_buf(buf, serial), called on the line in its 64-byte buffer
MatchBuffer ==
    /\ entry = "none"
    /\ \E fill \in Fills, checks \in BOOLEAN :
          LET buf == Buffer(LineText, fill)
              out == match_usb_serial_buf(buf, checks)
          IN  /\ Len(LineText \o FillHead(fill)) <= BufSize
              /\ input' = buf
              /\ result' = out[1]
              /\ serial_calls' = out[2]
    /\ entry' = "match_usb_serial_buf"
    /\ UNCHANGED <<toks, tail, numVars, writeVars>>

Next == ParseLine \/ MatchBuffer

Spec == Init /\ [][Next]_vars

-----------------------------------------------------------------------------
(* Claims about message_parse_build and match_usb_serial_buf, checked under Spec *)

Parsed == entry = "message_parse_build"

\* the keywords, as documented, and their all-upper-case spellings
InterfaceKeywords == {K_smi, K_cfg, K_gpio, K_jtag, K_spi}
OperationKeywords == {K_r, K_w, K_smiset}

InterfaceOf(kw) ==
    CASE kw = K_smi -> "SMI" [] kw = K_cfg -> "Config" [] kw = K_gpio -> "GPIO"
      [] kw = K_jtag -> "JTAG" [] kw = K_spi -> "SPI"

OperationOf(kw) ==
    CASE kw = K_r -> "Read" [] kw = K_w -> "Write" [] kw = K_smiset -> "SmiSet"

Lowers == <<"a", "b", "c", "d", "e", "f", "g", "h", "i", "j", "k", "l", "m",
            "n", "o", "p", "q", "r", "s", "t", "u", "v", "w", "x", "y", "z">>
Uppers == <<"A", "B", "C", "D", "E", "F", "G", "H", "I", "J", "K", "L", "M",
            "N", "O", "P", "Q", "R", "S", "T", "U", "V", "W", "X", "Y", "Z">>

LowerChar(c) ==
    IF \E i \in 1..26 : Uppers[i] = c THEN Lowers[CHOOSE i \in 1..26 : Uppers[i] = c] ELSE c
UpperCaseChar(c) ==
    IF \E i \in 1..26 : Lowers[i] = c THEN Uppers[CHOOSE i \in 1..26 : Lowers[i] = c] ELSE c

ToLower(w) == [i \in 1..Len(w) |-> LowerChar(w[i])]
ToUpper(w) == [i \in 1..Len(w) |-> UpperCaseChar(w[i])]

\* a spelling of a keyword of K in one case throughout
OneCase(w, K) == \E kw \in K : w = kw \/ w = ToUpper(kw)

\* the line is a keyword pair, each in one case, followed by payload words
KeywordPair == Len(toks) >= 2 /\ OneCase(toks[1], InterfaceKeywords)
                              /\ OneCase(toks[2], OperationKeywords)

PayloadWords == SubSeq(toks, 3, Len(toks))

\* a valid numeric literal: bytes_to_number returns a value for it
Literal(w) == bytes_to_number(w, FALSE)
IsLiteral(w) == Literal(w).kind = "Ok"

\* C1: a line of a valid interface keyword, a valid operation keyword and k valid numeric
\* literals, k in 0..4, gives a request with size = k whose payload holds the k decoded
\* values in order, then zeros.
C1_SizeIsPayloadCount ==
    (/\ Parsed /\ KeywordPair /\ Len(PayloadWords) <= PayloadLen
     /\ \A i \in 1..Len(PayloadWords) : IsLiteral(PayloadWords[i]))
    => /\ result.kind = "Ok"
       /\ result.size = Len(PayloadWords)
       /\ result.payload = [i \in 1..PayloadLen |->
              IF i <= Len(PayloadWords) THEN Literal(PayloadWords[i]).value ELSE U32Zero]

\* C2: with a valid keyword pair and at most 4 further tokens, one of which is no valid
\* numeric literal, message_parse_build returns the error of the first such token.
C2_FirstBadLiteralError ==
    (/\ Parsed /\ KeywordPair /\ Len(PayloadWords) <= PayloadLen
     /\ \E i \in 1..Len(PayloadWords) : ~IsLiteral(PayloadWords[i]))
    => LET first == CHOOSE i \in 1..Len(PayloadWords) :
                        /\ ~IsLiteral(PayloadWords[i])
                        /\ \A j \in 1..(i - 1) : IsLiteral(PayloadWords[j])
       IN  result = Err(Literal(PayloadWords[first]).err)

\* C3: message_parse_build ends, on every input text, by returning a request or an
\* error: it never aborts.
C3_NeverAborts == Parsed => result.kind \in {"Ok", "Err"}

\* the bytes of a buffer before its first zero byte
BeforeZero(buf) ==
    LET k == CHOOSE j \in 0..Len(buf) : /\ \A i \in 1..j : buf[i] # NUL
                                        /\ (j = Len(buf) \/ buf[j + 1] = NUL)
    IN  SubSeq(buf, 1, k)

\* what the bytes before the first zero byte decide: the menu alias, or their parse
OutcomeOfText(text, checks) ==
    IF slice_contains(text, K_menu) THEN Err("Ok") ELSE message_parse_build(text, checks)

\* C4: the outcome of match_usb_serial_buf depends only on the bytes of the buffer
\* before its first zero byte: it is the outcome of the menu check and of the parse of
\* that truncated text.
C4_OnlyBeforeFirstZero ==
    entry = "match_usb_serial_buf" =>
        \E checks \in BOOLEAN : result = OutcomeOfText(BeforeZero(input), checks)

C7_TooManyArguments ==
    Parsed =>
        /\ result = Err(ErrTooManyArguments) <=> Len(toks) > 6
        /\ (/\ Len(toks) = 6 /\ KeywordPair
            /\ \A i \in 1..Len(PayloadWords) : IsLiteral(PayloadWords[i]))
           => result.kind = "Ok"

C7_Witness ==
    /\ Parsed /\ Len(toks) = 7
    /\ ~OneCase(toks[1], InterfaceKeywords)
    /\ result = Err(ErrTooManyArguments)

-----------------------------------------------------------------------------
(* Specification of bytes_to_number alone *)

InitNum ==
    /\ s \in NumTokens
    /\ num = NotCalled
    /\ ParseIdle
    /\ WriteIdle

\* checks: the build profile, TRUE when arithmetic overflow panics, FALSE when it wraps
Decode ==
    /\ num.kind = "None"
    /\ \E checks \in BOOLEAN : num' = bytes_to_number(s, checks)
    /\ UNCHANGED <<s, parseVars, writeVars>>

NextNum == Decode

SpecNum == InitNum /\ [][NextNum]_vars

-----------------------------------------------------------------------------
(* Claims about bytes_to_number, checked under SpecNum *)

Decoded == num.kind # "None"

StartsWith0x(str) == Len(str) >= 2 /\ str[1] = "0" /\ str[2] = "x"

\* the token is read by the decimal branch
IsDecimalToken(str) == str # <<>> /\ str[1] \in DecDigits /\ ~StartsWith0x(str)

AllDecDigits(str) == \A i \in 1..Len(str) : str[i] \in DecDigits

\* result * 10 + digit, left to right, over every character of a token of digits
RECURSIVE AccumulateAll(_, _)
AccumulateAll(str, res) ==
    IF str = <<>> THEN res
    ELSE AccumulateAll(Tail(str), MulAdd(res, 10, DecVal(Head(str))).val)

\* C6: a token whose first character is a decimal digit and that does not start with
\* "0x" is decoded as decimal over ALL its characters: a character that is not 0-9,
\* the second one included, makes the result an error (InvalidDecimalChar, or
\* NumberTooLarge raised at an earlier character), and a returned value is the
\* accumulation result*10+digit over every character of the token.
C6_WholeTokenDecimal ==
    (Decoded /\ IsDecimalToken(s)) =>
        /\ ~AllDecDigits(s) =>
              (num.kind = "Err" /\ num.err \in {ErrInvalidDecimal, ErrTooLarge})
        /\ (AllDecDigits(s) /\ num.kind = "Ok") => num.value = AccumulateAll(s, U32Zero)

BelowDecLimit(n) == ~U32Ge(n, U32(DecLimit))

\* <<text, n>>: the canonical decimal string of n, for n below 429,496,720
DecPairs == {<<DecString(n), n>> : n \in {m \in Samples : BelowDecLimit(m)}}

\* <<text, n>>: "0x" and n in w lowercase hexadecimal digits, for w in 1..8
HexPairs ==
    UNION {{<<(<<"0", "x">> \o HexString(n, w)), n>> : n \in {m \in Samples : FitsHex(m, w)}} :
           w \in 1..8}

\* C8: bytes_to_number returns n for the canonical decimal string of every n below
\* 429,496,720, and for "0x" followed by n written in 1 to 8 lowercase hexadecimal
\* digits, for every 32-bit n.
C8_RoundTrip ==
    Decoded => \A p \in DecPairs \cup HexPairs : (s = p[1]) => num = NumOk(p[2], FALSE)

C8_Witness ==
    /\ s = <<"0", "x", "f", "f", "f", "f", "f", "f", "f", "f">>
    /\ num = NumOk([hi |-> 65535, lo |-> 65535], FALSE)

\* the largest value a decimal step can produce: 429,496,719 * 10 + 9 = 4,294,967,199
DecMax == [hi |-> 65535, lo |-> 65439]

\* C10: no step of bytes_to_number leaves the 32 bits, in the decimal branch (guarded by
\* the pre-check) or in the hexadecimal branch (guarded by the 8-digit rule): a token of
\* digits is returned exactly as accumulated, at most 4,294,967,199, or rejected with
\* NumberTooLarge (the accumulation is compared with result*10+digit over the whole token
\* for the tokens that do not start with 0).
C10_NoOverflow ==
    Decoded =>
        /\ ~num.ovf /\ num.kind # "Panic"
        /\ (IsDecimalToken(s) /\ num.kind = "Ok") => U32Ge(DecMax, num.value)
        /\ (IsDecimalToken(s) /\ AllDecDigits(s) /\ s[1] # "0") =>
               \/ num = NumOk(AccumulateAll(s, U32Zero), FALSE)
               \/ num = NumErr(ErrTooLarge, FALSE)

C10_Witness ==
    /\ s = <<"4", "2", "9", "4", "9", "6", "7", "1", "9", "9">>
    /\ num = NumOk(DecMax, FALSE)


-----------------------------------------------------------------------------
(* Specification of write_serial against a transport that answers as it likes *)

MaxBufLen     == 4
MaxWouldBlock == 2

WriteBufs == SeqsUpTo({"a", "b", NUL}, MaxBufLen)

InitWrite ==
    /\ WriteIdle
    /\ NumIdle
    /\ ParseIdle

\* write_serial(serial, buf, block) is entered: lines 17 to 26
WriteSerial ==
    /\ w_pc = "idle"
    /\ \E buf \in WriteBufs, block \in BOOLEAN :
          /\ w_buf' = buf
          /\ w_block' = block
          /\ w_ptr' = SubSeq(buf, 1, ScanIndex(buf, 0))
          /\ w_pc' = AfterLoopTest(SubSeq(buf, 1, ScanIndex(buf, 0)))
    /\ w_log' = <<>>
    /\ UNCHANGED <<numVars, parseVars>>

\* serial.write(write_ptr) returns Ok(len)
WriteOk ==
    /\ w_pc = "loop"
    /\ \E len \in 1..Len(w_ptr) :
          /\ w_log' = Append(w_log, WriteEvent(w_ptr, "Ok", len))
          /\ w_ptr' = SubSeq(w_ptr, len + 1, Len(w_ptr))
          /\ w_pc' = AfterLoopTest(SubSeq(w_ptr, len + 1, Len(w_ptr)))
    /\ UNCHANGED <<w_buf, w_block, numVars, parseVars>>

\* serial.write(write_ptr) returns Err(UsbError::WouldBlock)
WriteWouldBlock ==
    /\ w_pc = "loop"
    /\ Cardinality({i \in 1..Len(w_log) : w_log[i].resp = "WouldBlock"}) < MaxWouldBlock
    /\ w_log' = Append(w_log, WriteEvent(w_ptr, "WouldBlock", 0))
    /\ w_pc' = AfterWouldBlock(w_block)
    /\ UNCHANGED <<w_buf, w_block, w_ptr, numVars, parseVars>>

\* serial.write(write_ptr) returns another error
WriteError ==
    /\ w_pc = "loop"
    /\ w_log' = Append(w_log, WriteEvent(w_ptr, "Err", 0))
    /\ w_pc' = "flush"
    /\ UNCHANGED <<w_buf, w_block, w_ptr, numVars, parseVars>>

\* let _ = serial.flush()
Flush ==
    /\ w_pc = "flush"
    /\ \E resp \in {"Ok", "WouldBlock", "Err"} : w_log' = Append(w_log, FlushEvent(resp))
    /\ w_pc' = "done"
    /\ UNCHANGED <<w_buf, w_block, w_ptr, numVars, parseVars>>

\* write_serial returns
Return ==
    /\ w_pc = "done"
    /\ w_buf' = <<>> /\ w_block' = FALSE /\ w_ptr' = <<>> /\ w_pc' = "idle" /\ w_log' = <<>>
    /\ UNCHANGED <<numVars, parseVars>>

NextWrite == WriteSerial \/ WriteOk \/ WriteWouldBlock \/ WriteError \/ Flush \/ Return

SpecWrite == InitWrite /\ [][NextWrite]_vars

-----------------------------------------------------------------------------
(* Claim about write_serial, checked under SpecWrite *)

\* the number of bytes the transport accepted in the first k calls
RECURSIVE Accepted(_)
Accepted(k) == IF k = 0 THEN 0 ELSE Accepted(k - 1) + w_log[k].n

\* C9: write_serial offers the transport only the bytes of buf before its first zero
\* byte, in order: each write is given what remains of that content after the bytes
\* accepted so far, so the accepted bytes are a prefix of it and a retry after a
\* would-block offers the same bytes; after a would-block no write follows in
\* non-blocking mode and a write follows in blocking mode; flush is attempted exactly
\* once, as the last call, on every path out of the write loop.
C9_WriteSerial ==
    LET content == BeforeZero(w_buf)
        n       == Len(w_log)
    IN  /\ \A k \in 1..n : w_log[k].op = "write" =>
               /\ w_log[k].bytes # <<>>
               /\ w_log[k].bytes = SubSeq(content, Accepted(k - 1) + 1, Len(content))
        /\ w_pc \in {"loop", "flush", "done"} =>
               w_ptr = SubSeq(content, Accepted(n) + 1, Len(content))
        /\ \A k \in 1..n : (w_log[k].op = "write" /\ w_log[k].resp # "Ok" /\ k < n) =>
               IF w_block /\ w_log[k].resp = "WouldBlock"
               THEN w_log[k + 1].op = "write"
               ELSE w_log[k + 1].op = "flush"
        /\ \A k \in 1..n : w_log[k].op = "flush" => (k = n /\ w_pc = "done")
        /\ w_pc = "done" => (n >= 1 /\ w_log[n].op = "flush")
        /\ w_pc = "loop" => w_ptr # <<>>
        /\ (w_pc = "flush" /\ w_ptr # <<>>) =>
               (n >= 1 /\ w_log[n].resp \in {"WouldBlock", "Err"})

C9_Witness ==
    /\ w_pc = "done" /\ w_block
    /\ w_buf = <<"a", "b", NUL, "a">>
    /\ Len(w_log) = 4
    /\ w_log[1] = WriteEvent(<<"a", "b">>, "Ok", 1)
    /\ w_log[2] = WriteEvent(<<"b">>, "WouldBlock", 0)
    /\ w_log[3] = WriteEvent(<<"b">>, "Ok", 1)
    /\ w_log[4].op = "flush"

=============================================================================
